---------------------------- MODULE Spec2Model ----------------------------
(***************************************************************************)
(* A model of bot.py: the posting bot that picks an unposted image from    *)
(* images/, uploads it, creates a post record and appends the path to      *)
(* posted_images.log.                                                      *)
(*                                                                         *)
(* Strings are sequences of characters, so that str.strip() is computed    *)
(* and not assumed.  The directory prefix "images/" is kept as one token.  *)
(* The log file is the sequence of its lines (without the terminators) and *)
(* a flag telling whether the file exists.                                 *)
(***************************************************************************)
EXTENDS Integers, Sequences, FiniteSets, TLC

(***************************************************************************)
(* Bounds of the model.                                                    *)
(***************************************************************************)
MaxFiles == 2      \* entries of images/
MaxInitLog == 1    \* lines of the log before the first run
MaxRuns == 2       \* invocations of post_to_bluesky

(***************************************************************************)
(* Program constants.                                                      *)
(***************************************************************************)
size_limit == 976560

directory == <<"images/">>

Whitespace == {" "}

\* The file names of the model: "a", "b" and "a " (a trailing blank).
FileNames == {<<"a">>, <<"b">>, <<"a", " ">>}

\* What glob.glob(directory + "*") can return: directory + name.
PathUniverse == {directory \o n : n \in FileNames}

\* The None of the code; `not image_path` also holds of the empty string.
NoPath == <<>>

Procs == {1, 2}

Range(s) == {s[i] : i \in 1..Len(s)}

SeqsUpTo(S, n) == UNION {[1..k -> S] : k \in 0..n}

\* Every order random.shuffle can leave the list in.
Shuffles(S) ==
  {s \in [1..Cardinality(S) -> S] : \A i, j \in 1..Cardinality(S) : s[i] = s[j] => i = j}

(***************************************************************************)
(* str.strip(): leading and trailing whitespace removed.                   *)
(***************************************************************************)
RECURSIVE lstrip(_)
lstrip(s) ==
  IF s # <<>> /\ Head(s) \in Whitespace THEN lstrip(Tail(s)) ELSE s

RECURSIVE rstrip(_)
rstrip(s) ==
  IF s # <<>> /\ s[Len(s)] \in Whitespace THEN rstrip(SubSeq(s, 1, Len(s) - 1)) ELSE s

strip(s) == rstrip(lstrip(s))

(***************************************************************************)
(* is_image_posted: FileNotFoundError gives False; otherwise the path is   *)
(* looked up among the stripped lines.                                     *)
(***************************************************************************)
is_image_posted(image_path, exists, lines) ==
  IF ~exists THEN FALSE
  ELSE \E i \in 1..Len(lines) : strip(lines[i]) = image_path

(***************************************************************************)
(* log_posted_image's write: open(LOG_FILE, "a"), write path + newline.    *)
(***************************************************************************)
LogWriteTruncate(lines, image_path) == <<image_path>>

LogWriteOnce(lines, image_path) ==
  IF image_path \in Range(lines) THEN lines ELSE Append(lines, image_path)

LogWrite(lines, image_path) == Append(lines, image_path)

(***************************************************************************)
(* Exceptions.  Every failure of a stage is an instance of Exception.      *)
(***************************************************************************)
ExceptionClasses ==
  {"AuthError", "PermissionError", "OSError", "UploadError", "SubmitError"}

OnlyFileNotFound(exc) == exc = "FileNotFoundError"

\* post_to_bluesky: except Exception as e
TopHandlerCatches(exc) == exc \in ExceptionClasses

\* log_posted_image: except Exception as e
LogHandlerCatches(exc) == exc \in ExceptionClasses

\* How a run ends when exc is raised inside the try of post_to_bluesky.
Handle(exc) == IF TopHandlerCatches(exc) THEN "absorbed" ELSE "propagated"

(***************************************************************************)
(* compress_image's test of a byte size against the limit.                 *)
(***************************************************************************)
WithinLimitStrict(image_size) == image_size < size_limit

WithinLimitLoose(image_size) == image_size <= size_limit + 1

WithinLimit(image_size) == image_size <= size_limit

(***************************************************************************)
(* State.                                                                  *)
(***************************************************************************)
VARIABLES
  dir,          \* the entries of images/
  fsize,        \* the byte size of each entry
  logExists,    \* whether posted_images.log exists
  log,          \* its lines, in file order
  log0,         \* its lines before the first run
  pc,           \* where each invocation of post_to_bluesky is
  order,        \* get_next_image: the shuffled entries not yet examined
  image_path,   \* post_to_bluesky: image_path
  image_data,   \* post_to_bluesky: the bytes read, as [path, size]
  seen,         \* how many lines this run's last readlines() returned
  created,      \* whether this run's create_record succeeded
  appended,     \* whether this run's log_posted_image wrote its line
  attempts,     \* create_record calls of this run
  outcome,      \* how the run ended
  published,    \* every record created, in order: [path, proc, logged]
  runs,         \* invocations started so far
  src,          \* compress_image: the source file
  a_pc,         \* compress_image: where it is
  derived,      \* byte sizes of the _compressed.jpg and _resized.jpg files
  opened,       \* compress_image: whether Image.open decoded the source
  new_size,     \* compress_image: the (width, height) passed to resize
  a_result      \* compress_image: what it returned or raised

runVars ==
  <<dir, fsize, logExists, log, log0, pc, order, image_path, image_data,
    seen, created, appended, attempts, outcome, published, runs>>

adaptVars == <<src, a_pc, derived, opened, new_size, a_result>>

vars == <<runVars, adaptVars>>

NoFile == -1

NoData == [path |-> NoPath, size |-> NoFile]

NoResult == [kind |-> "none", size |-> NoFile]

\* Byte sizes of the entries of images/: at the limit and one byte above it.
FileSizes == {size_limit, size_limit + 1}

\* compress_image is not running.
AdaptIdle ==
  /\ src = [size |-> 0, decodable |-> FALSE, width |-> 0, height |-> 0]
  /\ a_pc = "idle"
  /\ derived = [compressed |-> NoFile, resized |-> NoFile]
  /\ opened = FALSE
  /\ new_size = <<0, 0>>
  /\ a_result = NoResult

(***************************************************************************)
(* The state before the first invocation: some entries in images/, the log *)
(* absent or holding lines written earlier.                                *)
(***************************************************************************)
Init ==
  /\ dir \in {D \in SUBSET PathUniverse : Cardinality(D) <= MaxFiles}
  /\ fsize \in [dir -> FileSizes]
  /\ logExists \in BOOLEAN
  /\ log \in (IF logExists THEN SeqsUpTo(PathUniverse, MaxInitLog) ELSE {<<>>})
  /\ log0 = log
  /\ pc = [r \in Procs |-> "idle"]
  /\ order = [r \in Procs |-> <<>>]
  /\ image_path = [r \in Procs |-> NoPath]
  /\ image_data = [r \in Procs |-> NoData]
  /\ seen = [r \in Procs |-> 0]
  /\ created = [r \in Procs |-> FALSE]
  /\ appended = [r \in Procs |-> FALSE]
  /\ attempts = [r \in Procs |-> 0]
  /\ outcome = [r \in Procs |-> "none"]
  /\ published = <<>>
  /\ runs = 0
  /\ AdaptIdle

Running(r) == pc[r] \notin {"idle", "done"}

\* The run leaves post_to_bluesky: by return, by the handler, or by raising.
Finish(r, how) ==
  /\ pc' = [pc EXCEPT ![r] = "done"]
  /\ outcome' = [outcome EXCEPT ![r] = how]

\* An invocation begins (__main__); its locals are fresh.
Begin(r) ==
  /\ ~Running(r)
  /\ runs < MaxRuns
  /\ runs' = runs + 1
  /\ pc' = [pc EXCEPT ![r] = "login"]
  /\ order' = [order EXCEPT ![r] = <<>>]
  /\ image_path' = [image_path EXCEPT ![r] = NoPath]
  /\ image_data' = [image_data EXCEPT ![r] = NoData]
  /\ seen' = [seen EXCEPT ![r] = 0]
  /\ created' = [created EXCEPT ![r] = FALSE]
  /\ appended' = [appended EXCEPT ![r] = FALSE]
  /\ attempts' = [attempts EXCEPT ![r] = 0]
  /\ outcome' = [outcome EXCEPT ![r] = "none"]
  /\ UNCHANGED <<dir, fsize, logExists, log, log0, published, adaptVars>>

\* An invocation that begins when no other is running; the scheduler's
\* invocations take the two process slots in turn.
Start(r) ==
  /\ \A q \in Procs : ~Running(q)
  /\ r = 1 + (runs % 2)
  /\ Begin(r)

\* The one invocation of process r, which may overlap the other's.
StartOverlapping(r) ==
  /\ pc[r] = "idle"
  /\ Begin(r)

\* client.login
Login(r) ==
  /\ pc[r] = "login"
  /\ \E ok \in BOOLEAN :
       IF ok THEN pc' = [pc EXCEPT ![r] = "glob"] /\ UNCHANGED outcome
       ELSE Finish(r, Handle("AuthError"))
  /\ UNCHANGED <<dir, fsize, logExists, log, log0, order, image_path, image_data,
                 seen, created, appended, attempts, published, runs, adaptVars>>

\* get_next_image: glob, shuffle, and the return of None for an empty list.
Glob(r) ==
  /\ pc[r] = "glob"
  /\ \E images \in Shuffles(dir) :
       /\ order' = [order EXCEPT ![r] = images]
       /\ IF images = <<>> THEN Finish(r, "returned")
          ELSE pc' = [pc EXCEPT ![r] = "scan"] /\ UNCHANGED outcome
  /\ UNCHANGED <<dir, fsize, logExists, log, log0, image_path, image_data,
                 seen, created, appended, attempts, published, runs, adaptVars>>

\* get_next_image: one turn of the loop, with its read of the log.
Scan(r) ==
  /\ pc[r] = "scan"
  /\ \E readable \in BOOLEAN :
       LET image == Head(order[r]) IN
       IF logExists /\ ~readable
       THEN Finish(r, Handle("PermissionError")) /\ UNCHANGED <<order, image_path, seen>>
       ELSE /\ seen' = [seen EXCEPT ![r] = Len(log)]
            /\ IF ~is_image_posted(image, logExists, log)
               THEN /\ image_path' = [image_path EXCEPT ![r] = image]
                    /\ pc' = [pc EXCEPT ![r] = "recheck"]
                    /\ UNCHANGED <<order, outcome>>
               ELSE /\ order' = [order EXCEPT ![r] = Tail(order[r])]
                    /\ UNCHANGED image_path
                    /\ IF Tail(order[r]) = <<>> THEN Finish(r, "returned")
                       ELSE UNCHANGED <<pc, outcome>>
  /\ UNCHANGED <<dir, fsize, logExists, log, log0, image_data,
                 created, appended, attempts, published, runs, adaptVars>>

\* post_to_bluesky: the second look at the log.
Recheck(r) ==
  /\ pc[r] = "recheck"
  /\ \E readable \in BOOLEAN :
       IF logExists /\ ~readable
       THEN Finish(r, Handle("PermissionError")) /\ UNCHANGED seen
       ELSE /\ seen' = [seen EXCEPT ![r] = Len(log)]
            /\ IF is_image_posted(image_path[r], logExists, log)
               THEN Finish(r, "returned")
               ELSE pc' = [pc EXCEPT ![r] = "read"] /\ UNCHANGED outcome
  /\ UNCHANGED <<dir, fsize, logExists, log, log0, order, image_path, image_data,
                 created, appended, attempts, published, runs, adaptVars>>

\* post_to_bluesky: the bytes of image_path are read.
ReadImage(r) ==
  /\ pc[r] = "read"
  /\ \E ok \in BOOLEAN :
       IF ok
       THEN /\ image_data' = [image_data EXCEPT
                 ![r] = [path |-> image_path[r], size |-> fsize[image_path[r]]]]
            /\ pc' = [pc EXCEPT ![r] = "upload"]
            /\ UNCHANGED outcome
       ELSE Finish(r, Handle("OSError")) /\ UNCHANGED image_data
  /\ UNCHANGED <<dir, fsize, logExists, log, log0, order, image_path,
                 seen, created, appended, attempts, published, runs, adaptVars>>

\* client.upload_blob
Upload(r) ==
  /\ pc[r] = "upload"
  /\ \E ok \in BOOLEAN :
       IF ok THEN pc' = [pc EXCEPT ![r] = "create"] /\ UNCHANGED outcome
       ELSE Finish(r, Handle("UploadError"))
  /\ UNCHANGED <<dir, fsize, logExists, log, log0, order, image_path, image_data,
                 seen, created, appended, attempts, published, runs, adaptVars>>

\* client.com.atproto.repo.create_record
CreateRecord(r) ==
  /\ pc[r] = "create"
  /\ attempts' = [attempts EXCEPT ![r] = @ + 1]
  /\ \E ok \in BOOLEAN :
       IF ok
       THEN /\ created' = [created EXCEPT ![r] = TRUE]
            /\ published' = Append(published,
                 [path |-> image_path[r], proc |-> r, logged |-> FALSE])
            /\ pc' = [pc EXCEPT ![r] = "log"]
            /\ UNCHANGED outcome
       ELSE Finish(r, Handle("SubmitError")) /\ UNCHANGED <<created, published>>
  /\ UNCHANGED <<dir, fsize, logExists, log, log0, order, image_path, image_data,
                 seen, appended, runs, adaptVars>>

\* published, with the record this run created marked as logged.
MarkLogged(r) ==
  LET mine == {i \in 1..Len(published) : published[i].proc = r}
      last == CHOOSE i \in mine : \A j \in mine : j <= i
  IN [published EXCEPT ![last].logged = TRUE]

\* log_posted_image: the append, or a failure that its handler prints.
LogPosted(r) ==
  /\ pc[r] = "log"
  /\ \E ok \in BOOLEAN :
       IF ok
       THEN /\ log' = LogWrite(log, image_path[r])
            /\ logExists' = TRUE
            /\ published' = MarkLogged(r)
            /\ appended' = [appended EXCEPT ![r] = TRUE]
            /\ Finish(r, "returned")
       ELSE /\ UNCHANGED <<log, logExists, published, appended>>
            /\ IF LogHandlerCatches("OSError") THEN Finish(r, "returned")
               ELSE Finish(r, Handle("OSError"))
  /\ UNCHANGED <<dir, fsize, log0, order, image_path, image_data,
                 seen, created, attempts, runs, adaptVars>>

Step(r) ==
  \/ Login(r)
  \/ Glob(r)
  \/ Scan(r)
  \/ Recheck(r)
  \/ ReadImage(r)
  \/ Upload(r)
  \/ CreateRecord(r)
  \/ LogPosted(r)

\* Invocations one after another, as a scheduler that waits for each makes them.
Next == \E r \in Procs : Start(r) \/ Step(r)

Spec == Init /\ [][Next]_vars

\* Two invocations, one of each process, that may overlap.
NextOverlap == \E r \in Procs : StartOverlapping(r) \/ Step(r)

SpecOverlap == Init /\ [][NextOverlap]_vars

(***************************************************************************)
(* compress_image and delete_image_copies, on one source file.             *)
(***************************************************************************)

\* Byte sizes of a source file: empty, at the limit, one byte above, twice it.
SourceSizes == {0, size_limit, size_limit + 1, 2 * size_limit}

\* Byte sizes the JPEG encoder can produce; the code does not decide them.
EncodedSizes == {size_limit, size_limit + 1, 2 * size_limit}

\* Pixel widths and heights, small enough for the products below.
Dimensions == {100, 200}

\* No invocation of post_to_bluesky, an empty images/ and no log.
RunIdle ==
  /\ dir = {}
  /\ fsize = [p \in {} |-> 0]
  /\ logExists = FALSE
  /\ log = <<>>
  /\ log0 = <<>>
  /\ pc = [r \in Procs |-> "idle"]
  /\ order = [r \in Procs |-> <<>>]
  /\ image_path = [r \in Procs |-> NoPath]
  /\ image_data = [r \in Procs |-> NoData]
  /\ seen = [r \in Procs |-> 0]
  /\ created = [r \in Procs |-> FALSE]
  /\ appended = [r \in Procs |-> FALSE]
  /\ attempts = [r \in Procs |-> 0]
  /\ outcome = [r \in Procs |-> "none"]
  /\ published = <<>>
  /\ runs = 0

\* compress_image is called on a file with no derived file beside it.
InitAdapt ==
  /\ RunIdle
  /\ src \in [size : SourceSizes, decodable : BOOLEAN,
              width : Dimensions, height : Dimensions]
  /\ a_pc = "check"
  /\ derived = [compressed |-> NoFile, resized |-> NoFile]
  /\ opened = FALSE
  /\ new_size = <<0, 0>>
  /\ a_result = NoResult

\* int(dimension * size_ratio), size_ratio = size_limit / image_size * 0.9
Scaled(dimension, image_size) == (dimension * size_limit * 9) \div (image_size * 10)

\* The size of the source is tested; a small enough file is returned as it is.
CheckSize ==
  /\ a_pc = "check"
  /\ IF WithinLimit(src.size)
     THEN /\ a_result' = [kind |-> "original", size |-> src.size]
          /\ a_pc' = "done"
     ELSE /\ a_pc' = "compress"
          /\ UNCHANGED a_result
  /\ UNCHANGED <<src, derived, opened, new_size, runVars>>

\* Image.open, convert, save as <path>_compressed.jpg, and the second test.
Compress ==
  /\ a_pc = "compress"
  /\ IF ~src.decodable
     THEN /\ a_result' = [kind |-> "DecodeError", size |-> NoFile]
          /\ a_pc' = "done"
          /\ UNCHANGED <<derived, opened>>
     ELSE \E image_size \in EncodedSizes :
            /\ opened' = TRUE
            /\ derived' = [derived EXCEPT !.compressed = image_size]
            /\ IF WithinLimit(image_size)
               THEN /\ a_result' = [kind |-> "compressed", size |-> image_size]
                    /\ a_pc' = "done"
               ELSE /\ a_pc' = "resize"
                    /\ UNCHANGED a_result
  /\ UNCHANGED <<src, new_size, runVars>>

\* resize, save as <path>_resized.jpg, returned without a test of its size.
Resize ==
  /\ a_pc = "resize"
  /\ new_size' = <<Scaled(src.width, derived.compressed),
                   Scaled(src.height, derived.compressed)>>
  /\ \E resized_size \in EncodedSizes :
       /\ derived' = [derived EXCEPT !.resized = resized_size]
       /\ a_result' = [kind |-> "resized", size |-> resized_size]
  /\ a_pc' = "done"
  /\ UNCHANGED <<src, opened, runVars>>

\* delete_image_copies: both derived files are removed if present.
DeleteCopies ==
  /\ a_pc = "done"
  /\ derived' = [compressed |-> NoFile, resized |-> NoFile]
  /\ a_pc' = "deleted"
  /\ UNCHANGED <<src, opened, new_size, a_result, runVars>>

NextAdapt == CheckSize \/ Compress \/ Resize \/ DeleteCopies

SpecAdapt == InitAdapt /\ [][NextAdapt]_vars

(***************************************************************************)
(* Properties.                                                             *)
(***************************************************************************)

Count(x, lines) == Cardinality({i \in 1..Len(lines) : lines[i] = x})

\* get_next_image has just returned a path to run r.
Selected(r) == pc[r] = "recheck"

\* get_next_image has returned None to run r, which then returned.
SelectedNone(r) == pc[r] = "done" /\ outcome[r] = "returned" /\ image_path[r] = NoPath

\* Run r created its record and wrote its line.
Logged(r) == pc[r] = "done" /\ created[r] /\ appended[r]

\* Some record was created whose line could not be written.
AppendFailed ==
  \E i \in 1..Len(published) :
    ~published[i].logged /\ ~(i = Len(published) /\ pc[published[i].proc] = "log")

\* C1: get_next_image returns a path of the directory that is not a line of
\* the log, or None; None exactly when the directory is empty or every path
\* of it is a line of the log, whatever the shuffle.
C1_SelectNextUnposted ==
  \A r \in Procs :
    /\ Selected(r) => image_path[r] \in dir /\ image_path[r] \notin Range(log)
    /\ SelectedNone(r) => dir = {} \/ dir \subseteq Range(log)

\* C2: in runs that do not overlap and whose appends all succeed, no path
\* has a record created for it twice.
C2_NoRepublish ==
  ~AppendFailed =>
    \A i, j \in 1..Len(published) :
      published[i].path = published[j].path => i = j

\* C3: the bytes a run uploads are those of the path compress_image returns
\* for the selected image: the original only when it is within the limit.
C3_AdaptBeforeUpload ==
  \A r \in Procs :
    image_data[r] # NoData /\ image_data[r].path = image_path[r]
      => image_data[r].size <= size_limit

\* C4: after log_posted_image(p) has written its line, is_image_posted(p)
\* is true.
C4_AppendThenIsPosted ==
  \A r \in Procs :
    Logged(r) => is_image_posted(image_path[r], logExists, log)

\* C5 as stated: whatever path compress_image returns, the file is within
\* the limit.
C5_EveryReturnWithinCeiling ==
  a_result.kind \in {"original", "compressed", "resized"}
    => a_result.size <= size_limit

\* C5: the original path and the _compressed.jpg path are returned only for
\* a file within the limit; the other outcomes are the _resized.jpg path,
\* returned untested, and a decode error.
C5_TestedReturnsWithinCeiling ==
  /\ a_result.kind \in {"original", "compressed"} => a_result.size <= size_limit
  /\ a_pc \in {"done", "deleted"}
       => a_result.kind \in {"original", "compressed", "resized", "DecodeError"}

C5_Witness ==
  /\ a_pc = "done"
  /\ a_result = [kind |-> "compressed", size |-> size_limit]
  /\ src.size > size_limit

\* C6: for a source of zero bytes or one that cannot be decoded,
\* compress_image raises a decode error and returns no path.
C6_DecodeErrorOnBadSource ==
  a_pc \in {"done", "deleted"} /\ (src.size = 0 \/ ~src.decodable)
    => a_result.kind = "DecodeError"

\* C7: compress_image returns the original path exactly for a source of at
\* most 976,560 bytes, and then without opening the image and without
\* creating a derived file.
C7_OriginalIffWithinLimit ==
  a_pc \in {"done", "deleted"} =>
    /\ a_result.kind = "original" <=> src.size <= size_limit
    /\ a_result.kind = "original" =>
         /\ a_result.size = src.size
         /\ ~opened
         /\ derived = [compressed |-> NoFile, resized |-> NoFile]

C7_Witness ==
  /\ a_pc = "done"
  /\ src.size = size_limit
  /\ a_result.kind = "original"
  /\ derived = [compressed |-> NoFile, resized |-> NoFile]

\* C8: no failure leaves post_to_bluesky as an exception, a run calls
\* create_record at most once, and a failed log write after a created record
\* ends the run by a plain return with the record kept.
C8_NoFailurePropagates ==
  \A r \in Procs :
    /\ outcome[r] # "propagated"
    /\ attempts[r] <= 1
    /\ pc[r] = "done" => outcome[r] \in {"returned", "absorbed"}
    /\ pc[r] = "done" /\ created[r] /\ ~appended[r] =>
         /\ outcome[r] = "returned"
         /\ \E i \in 1..Len(published) :
              published[i] = [path |-> image_path[r], proc |-> r, logged |-> FALSE]

C8_Witness ==
  \E r \in Procs :
    pc[r] = "done" /\ created[r] /\ ~appended[r] /\ outcome[r] = "returned"

\* The lines of the records whose line was written, in the order of creation.
RECURSIVE LoggedPaths(_)
LoggedPaths(recs) ==
  IF recs = <<>> THEN <<>>
  ELSE (IF Head(recs).logged THEN <<Head(recs).path>> ELSE <<>>)
         \o LoggedPaths(Tail(recs))

\* A step that changes the log is the one append of a run whose record was
\* created, and it adds that run's path at the end.
C9_Step ==
  (log' # log \/ logExists' # logExists) =>
    \E r \in Procs :
      /\ pc[r] = "log" /\ created[r] /\ ~appended[r]
      /\ appended'[r] /\ pc'[r] = "done"
      /\ log' = Append(log, image_path[r])
      /\ logExists'

\* C9: the log changes only by one append per run, after that run's record
\* was created, and lists the logged paths in posting order after its
\* earlier lines.
C9_LogAppendOnly ==
  [][C9_Step /\ log' = log0' \o LoggedPaths(published')]_vars

C9_Witness ==
  /\ log0 # <<>>
  /\ Len(log) = Len(log0) + 2
  /\ \A r \in Procs : ~Running(r)

\* The runs of both processes created a record for path and wrote its line.
BothPosted(path) ==
  \A r \in Procs : Logged(r) /\ image_path[r] = path

\* C10: when two overlapping runs have both created a record for one path
\* that strip() leaves as it is, each had read the log before the other
\* wrote its line, and the log holds the path twice.
C10_RaceDuplicates ==
  \A path \in dir :
    BothPosted(path) /\ strip(path) = path =>
      /\ Count(path, log) >= 2
      /\ \A r \in Procs : path \notin Range(SubSeq(log, 1, seen[r]))

C10_Witness ==
  \E path \in dir :
    /\ BothPosted(path) /\ strip(path) = path
    /\ Count(path, log) = 2
    /\ Len(published) = 2
    /\ \A r \in Procs : seen[r] = Len(log) - 2

=============================================================================
